---- MODULE Spec2Model ----
(***************************************************************************)
(* Model of etl_client:                                                     *)
(*  - BatchProcessor.process_animals (batch_processor.py) with its nested   *)
(*    etl_worker threads, the queue.Queue they share, and the helpers       *)
(*    _fetch_animal_details_sequentially, transform_animals_batch and       *)
(*    _post_animals_batch;                                                  *)
(*  - PaginationHandler.get_all_animal_ids (pagination.py);                 *)
(*  - ETLPipeline.run (pipeline.py), which calls the two in sequence;       *)
(*  - AnimalAPIClient._make_request (http_client.py) with its two retry     *)
(*    layers, the tenacity decorator and the urllib3 Retry of the adapter.  *)
(***************************************************************************)
EXTENDS Integers, Sequences, FiniteSets, TLC

\* ------------------------------------------------------------------ bounds
MaxId == 2          \* the short lists cycle through the identifiers 1..MaxId
MaxLen == 3         \* longest short identifier list
MaxBatch == 2       \* largest small configured batch size
MaxWorkers == 2     \* largest configured worker count
MaxChunks == 3      \* only configurations with at most this many chunks
MaxOver == 1        \* how far above the sink limit the long lists go
MaxFailPos == 3     \* fetch/transform failures hit chunk positions 1..MaxFailPos
MaxPageSize == 2    \* the listing endpoint serves pages of 1..MaxPageSize items
MaxAttempts == 3    \* largest configured api_max_retries
MaxDelay == 2       \* largest configured api_retry_delay, in seconds
MaxFactor == 3      \* largest configured api_backoff_multiplier
MaxTimeout == 3     \* largest configured api_timeout, in seconds
MaxStr == 4         \* longest friends string
MaxRecords == 3     \* longest batch handed to transform_animals_batch directly

\* ------------------------------------------------------- program constants
PostLimit == 100    \* batch_processor.py:112, the sink's hard limit
ExpBase == 2        \* http_client.py:58, wait_exponential is given no exp_base

VARIABLES
    animal_ids,           \* argument of process_animals
    batch_size,           \* self.batch_size
    max_workers,          \* self.max_workers
    main_pc,              \* position of the calling thread in process_animals
    started,              \* number of worker threads started so far
    work_queue,           \* queue.Queue(): items not yet taken, FIFO
    unfinished_tasks,     \* queue.Queue.unfinished_tasks (put +1, task_done -1)
    total_batches,        \* local total_batches
    completed_batches,    \* nonlocal completed_batches
    wpc,                  \* position of each etl_worker thread
    batch_info,           \* each worker's current (batch_num, batch_ids)
    animal_details,       \* each worker's fetched details
    transformed_animals,  \* each worker's transformed records
    survivors,            \* history: chunk positions still alive in the worker's records
    got,                  \* history: dequeues of chunks, in order
    stops,                \* history: stop signals consumed per worker
    posts,                \* history: calls of http_client.post_animals_home, in order
    processed,            \* history: per chunk number, the outcomes of its try-blocks
    counted,              \* history: per chunk number, the increments of completed_batches
    failures,             \* history: number of failed fetches, transformations and posts
    run_pc,               \* position of ETLPipeline.run
    exc,                  \* the exception each of pager, scheduler and run raised
    listing,              \* the listing endpoint's pages, each a list of identifiers
    pager_pc,             \* position of get_all_animal_ids
    page,                 \* local page
    total_pages,          \* local total_pages: <<>> for None, <<n>> once known
    all_animal_ids,       \* local all_animal_ids
    page_log,             \* history: requests for pages of the listing, in order
    beyond,               \* history: requests for pages after the listing's last
    settings,             \* the Settings the transport is built from
    call_pc,              \* position of one _make_request call
    attempt_number,       \* tenacity's attempt_number of the call
    retries_left,         \* urllib3 Retry.total left in the current session.request
    sent,                 \* history: network requests issued by the call
    attempt_log,          \* history: how each finished attempt of the call ended
    waits,                \* history: tenacity's sleeps between attempts, in order
    outcome,              \* what the call returned or raised
    t_pc,                 \* position of one call into the transformer
    t_input,              \* the argument of that call
    t_output,             \* what it returned
    t_errors              \* local errors of transform_animals_batch: the ids collected

pager == <<listing, pager_pc, page, total_pages, all_animal_ids, page_log, beyond>>
transport == <<settings, call_pc, attempt_number, retries_left, sent, attempt_log,
               waits, outcome>>
transformer == <<t_pc, t_input, t_output, t_errors>>
upstream == <<run_pc, exc, pager, transport, transformer>>

vars == <<animal_ids, batch_size, max_workers, main_pc, started, work_queue,
          unfinished_tasks, total_batches, completed_batches, wpc, batch_info,
          animal_details, transformed_animals, survivors, got, stops, posts,
          processed, counted, failures, upstream>>

config == <<animal_ids, batch_size, max_workers>>
history == <<got, stops, posts, processed, counted, failures>>

\* ----------------------------------------------------------------- helpers
Min(a, b) == IF a < b THEN a ELSE b

WorkerIds == 1..MaxWorkers

Workers == 1..max_workers

\* The stop signal put on the queue (None in the source).
Sentinel == [batch_num |-> 0, batch_ids |-> <<>>]

NoBatch == Sentinel

\* The identifiers are opaque to the scheduler: one list per length, cycling
\* through 1..MaxId so that a list longer than MaxId repeats an identifier.
ShortLists == {[i \in 1..n |-> ((i - 1) % MaxId) + 1] : n \in 0..MaxLen}

LongLists == {[i \in 1..n |-> i] : n \in {PostLimit, PostLimit + MaxOver}}

IdLists == ShortLists \cup LongLists

BatchSizes == (1..MaxBatch) \cup {PostLimit, PostLimit + MaxOver}

\* total_batches = (len(animal_ids) + batch_size - 1) // batch_size
TotalBatches(ids, B) == (Len(ids) + B - 1) \div B

\* animal_ids[i : i + batch_size] with Python's clamping of the upper end
Slice(ids, i, B) == SubSeq(ids, i + 1, Min(i + B, Len(ids)))

\* Variant of PutBatches: the loop stops before a trailing partial chunk.
RECURSIVE PutBatchesDropsPartial(_, _, _, _)
PutBatchesDropsPartial(q, ids, i, B) ==
    IF i + B > Len(ids) THEN q
    ELSE PutBatchesDropsPartial(Append(q, [batch_num |-> (i \div B) + 1,
                                           batch_ids |-> Slice(ids, i, B)]),
                                ids, i + B, B)

\* Variant of PutBatches: every chunk is put at the front of the queue.
RECURSIVE PutBatchesNewestFirst(_, _, _, _)
PutBatchesNewestFirst(q, ids, i, B) ==
    IF i >= Len(ids) THEN q
    ELSE PutBatchesNewestFirst(<<[batch_num |-> (i \div B) + 1,
                                  batch_ids |-> Slice(ids, i, B)]>> \o q,
                               ids, i + B, B)

\* for i in range(0, len(animal_ids), batch_size): work_queue.put((i // B + 1, batch_ids))
RECURSIVE PutBatches(_, _, _, _)
PutBatches(q, ids, i, B) ==
    IF i >= Len(ids) THEN q
    ELSE PutBatches(Append(q, [batch_num |-> (i \div B) + 1,
                               batch_ids |-> Slice(ids, i, B)]),
                    ids, i + B, B)

\* Variant of PutSentinels: one stop signal too few.
RECURSIVE PutSentinelsOneShort(_, _)
PutSentinelsOneShort(q, n) ==
    IF n <= 1 THEN q ELSE PutSentinelsOneShort(Append(q, Sentinel), n - 1)

\* for _ in range(self.max_workers): work_queue.put(None)
RECURSIVE PutSentinels(_, _)
PutSentinels(q, n) ==
    IF n <= 0 THEN q ELSE PutSentinels(Append(q, Sentinel), n - 1)

\* ------------------------------------------------------- models.py: values
\* A string is a sequence of one-character strings over Alphabet; a field
\* value carries its Python type.
Alphabet == {"a", "b", " ", ","}

Whitespace == {" "}

Strings == UNION {[1..n -> Alphabet] : n \in 0..MaxStr}

NoneValue == [type |-> "none", value |-> <<>>]

StrValue(s) == [type |-> "str", value |-> s]

ListValue(l) == [type |-> "list", value |-> l]

\* born_at in epoch milliseconds, by whether datetime.fromtimestamp accepts it
NoBornAt == [type |-> "none", value |-> "none"]

BornAtMs(range) == [type |-> "int", value |-> range]

BornAts == {NoBornAt, BornAtMs("in_range"), BornAtMs("out_of_range")}

\* str.strip(): leading and trailing whitespace removed
Strip(s) ==
    LET keep == {i \in 1..Len(s) : s[i] \notin Whitespace}
    IN IF keep = {} THEN <<>>
       ELSE SubSeq(s, CHOOSE i \in keep : \A j \in keep : i <= j,
                      CHOOSE i \in keep : \A j \in keep : j <= i)

\* str.split(sep): the pieces between the separators, empty pieces included
Split(s, sep) ==
    LET cuts == SelectSeq([i \in 1..Len(s) |-> i], LAMBDA i : s[i] = sep)
        n == Len(cuts)
        lo(k) == IF k = 1 THEN 1 ELSE cuts[k - 1] + 1
        hi(k) == IF k = n + 1 THEN Len(s) ELSE cuts[k] - 1
    IN [k \in 1..(n + 1) |-> IF lo(k) > hi(k) THEN <<>> ELSE SubSeq(s, lo(k), hi(k))]

\* [friend.strip() for friend in l]
StripEach(l) == [k \in 1..Len(l) |-> Strip(l[k])]

\* Variant of TransformFriends: the pieces are not trimmed.
TransformFriendsUntrimmed(v) ==
    CASE v.type = "none" -> <<>>
      [] v.type = "list" -> v.value
      [] v.type = "str" ->
            IF v.value = <<>> \/ Strip(v.value) = <<>> THEN <<>>
            ELSE SelectSeq(Split(v.value, ","), LAMBDA friend : Strip(friend) # <<>>)
      [] OTHER -> <<>>

\* Variant of TransformFriends: empty pieces are kept.
TransformFriendsKeepsEmpty(v) ==
    CASE v.type = "none" -> <<>>
      [] v.type = "list" -> v.value
      [] v.type = "str" ->
            IF v.value = <<>> \/ Strip(v.value) = <<>> THEN <<>>
            ELSE StripEach(Split(v.value, ","))
      [] OTHER -> <<>>

\* TransformedAnimal.transform_friends (validator, pre=True, always=True):
\* None -> [], a list is returned as it is, a string is split on commas with
\* every piece stripped and the empty ones left out.
TransformFriends(v) ==
    CASE v.type = "none" -> <<>>
      [] v.type = "list" -> v.value
      [] v.type = "str" ->
            IF v.value = <<>> \/ Strip(v.value) = <<>> THEN <<>>
            ELSE StripEach(SelectSeq(Split(v.value, ","),
                                     LAMBDA friend : Strip(friend) # <<>>))
      [] OTHER -> <<>>

\* datetime.fromtimestamp(v / 1000) raises outside the platform's range
BornAtRaises(v) == v.type = "int" /\ v.value = "out_of_range"

\* TransformedAnimal.transform_born_at: None stays None, a timestamp becomes
\* its ISO 8601 text
TransformBornAt(v) ==
    IF v.type = "none" THEN NoBornAt ELSE [type |-> "str", value |-> "iso8601"]

\* AnimalDetail: id, born_at: Optional[int], friends: List[str]
DetailRecord(id, born_at, friends) ==
    [id |-> id, born_at |-> born_at, friends |-> ListValue(friends), stage |-> "detail"]

\* AnimalDetail(**response_data): the record fetched for one identifier; the
\* scheduler never looks into born_at and friends
AnimalDetail(id) == DetailRecord(id, NoBornAt, <<>>)

\* TransformedAnimal(id=..., born_at=..., friends=...): the validators run on
\* the constructor's arguments
TransformedAnimal(d) ==
    [id |-> d.id, born_at |-> TransformBornAt(d.born_at),
     friends |-> TransformFriends(d.friends), stage |-> "transformed"]

\* The list indexes 1..n that a loop with "append unless it failed" keeps, in order.
KeptIndexes(n, failed) == SelectSeq([j \in 1..n |-> j], LAMBDA j : j \notin failed)

\* Variant of FetchAnimalDetailsSequentially: the first failing fetch ends the loop.
FetchStopsAtFirstFailure(ids, fails) ==
    LET before == {j \in 1..Len(ids) : \A i \in 1..j : i \notin fails}
    IN [k \in 1..Cardinality(before) |-> AnimalDetail(ids[k])]

\* _fetch_animal_details_sequentially: the identifiers are fetched in order;
\* _fetch_single_animal returns None for a failing one and it is not appended.
FetchAnimalDetailsSequentially(ids, fails) ==
    LET kept == KeptIndexes(Len(ids), fails)
    IN [k \in 1..Len(kept) |-> AnimalDetail(ids[kept[k]])]

\* Variant of TransformAnimalsBatch: records are inserted at the front.
TransformAnimalsBatchReversed(details, errs) ==
    LET kept == KeptIndexes(Len(details), errs)
    IN [k \in 1..Len(kept) |-> TransformedAnimal(details[kept[Len(kept) + 1 - k]])]

\* Variant of TransformAnimalsBatch: the first raising record ends the loop.
TransformAnimalsBatchStopsAtError(details, errs) ==
    LET before == {j \in 1..Len(details) : \A i \in 1..j : i \notin errs}
    IN [k \in 1..Cardinality(before) |-> TransformedAnimal(details[k])]

\* transform_animals_batch: a record whose transformation raises is skipped
\* (collected in errors), the others are appended in order.
TransformAnimalsBatch(details, errs) ==
    LET kept == KeptIndexes(Len(details), errs)
    IN [k \in 1..Len(kept) |-> TransformedAnimal(details[kept[k]])]

\* transform_animal: TransformedAnimal(...) raises when a validator raises, and
\* the exception is logged and raised again
TransformAnimalRaises(d) == BornAtRaises(d.born_at)

\* The positions of a batch whose transformation raises.
RaisingPositions(details) ==
    {k \in 1..Len(details) : TransformAnimalRaises(details[k])}

\* errors.append((animal_detail.id, str(e))): the ids collected, in order
CollectedErrors(details) ==
    LET bad == SelectSeq([k \in 1..Len(details) |-> k],
                         LAMBDA k : k \in RaisingPositions(details))
    IN [k \in 1..Len(bad) |-> details[bad[k]].id]

\* friends: List[str] of AnimalDetail: the constructor accepts a list only
AnimalDetailRejects(raw) == raw.friends.type # "list"

\* Variant of PostRejected: the guard is off by one.
PostRejectedOffByOne(animals) == Len(animals) > PostLimit + 1

\* len(transformed_animals) > 100 raises ValueError before the network call
PostRejected(animals) == Len(animals) > PostLimit

\* ----------------------------------- history helpers (not program state)
\* The elements of a set of chunk positions in increasing order.
InOrder(S, n) == SelectSeq([j \in 1..n |-> j], LAMBDA j : j \in S)

\* Chunk positions left after the details at list indexes errs are dropped.
DropIndexes(S, n, errs) ==
    S \ {InOrder(S, n)[k] : k \in errs}

\* ------------------------------------------------- the listing endpoint
\* The pages the listing endpoint serves for the identifiers ids, s per page.
Paginate(ids, s) ==
    [p \in 1..TotalBatches(ids, s) |-> Slice(ids, (p - 1) * s, s)]

Listings == {Paginate(ids, s) : ids \in ShortLists, s \in 1..MaxPageSize}

\* total_pages as every response of the listing endpoint declares it.
LastPage == Len(listing)

\* The identifiers of the first n pages of the listing l, in order.
RECURSIVE ListedIds(_, _)
ListedIds(l, n) == IF n = 0 THEN <<>> ELSE ListedIds(l, n - 1) \o l[n]

\* AnimalsPage(**response_data) of a well-formed response for page p: a page
\* after the last one is served empty.
AnimalsPage(p) ==
    [items |-> IF p <= LastPage THEN listing[p] ELSE <<>>,
     page |-> p, total_pages |-> LastPage]

\* How a call of _fetch_animals_page can end: with a parsed page, with the
\* transport's error, or with the error of AnimalsPage(**response_data).
FetchFailures == {"error", "malformed"}

\* ----------------------------------------------------------- the transport
\* config.py 14-17, with the delay and the multiplier in whole numbers.
DefaultSettings ==
    [api_timeout |-> 30, api_max_retries |-> 5, api_retry_delay |-> 1,
     api_backoff_multiplier |-> 2]

SettingsSet ==
    [api_timeout : 1..MaxTimeout, api_max_retries : 1..MaxAttempts,
     api_retry_delay : 1..MaxDelay, api_backoff_multiplier : 1..MaxFactor]

\* Line 44: the statuses the adapter's Retry retries.
StatusForcelist == {500, 502, 503, 504}

\* The statuses the endpoints answer with.
Statuses == {200, 400, 404, 501} \cup StatusForcelist

\* What one network request can end with: a response, or no response at all.
Response(status) == [kind |-> "response", status |-> status]

NoResponse(kind) == [kind |-> kind, status |-> 0]

Responses == {Response(st) : st \in Statuses}

Breakdowns == {NoResponse(k) : k \in {"connection_failure", "timeout"}}

Interrupt == NoResponse("interrupt")

\* urllib3 retries a request that got no response, and a response whose
\* status is in status_forcelist (GET and POST are both in method_whitelist).
AdapterRetriesOn(r) ==
    \/ r \in Breakdowns
    \/ r.kind = "response" /\ r.status \in StatusForcelist

\* Line 71: raise_for_status() raises for every 4xx and 5xx status.
RaisesForStatus(r) == r.kind = "response" /\ r.status >= 400 /\ r.status < 600

\* The exception an attempt ends with when its last network request ended
\* with r: what requests makes of urllib3's MaxRetryError, the HTTPError of
\* raise_for_status(), or the interrupt itself.
ExceptionOf(r) ==
    [type |-> CASE r.kind = "connection_failure" -> "ConnectionError"
                [] r.kind = "timeout" -> "Timeout"
                [] r.kind = "interrupt" -> "KeyboardInterrupt"
                [] r.kind = "response" /\ r.status \in StatusForcelist -> "RetryError"
                [] OTHER -> "HTTPError",
     status |-> r.status]

\* The subclasses of requests.RequestException among these.
RequestExceptions == {"ConnectionError", "Timeout", "RetryError", "HTTPError"}

\* Line 56: retry_if_exception_type(requests.RequestException).
RetryIfExceptionType(e) == e.type \in RequestExceptions

\* Line 57: stop_after_attempt(settings.api_max_retries).
StopAfterAttempt(n) == n >= settings.api_max_retries

\* Line 42: Retry(total=settings.api_max_retries), retries per session.request.
AdapterTotal == settings.api_max_retries

RECURSIVE Pow(_, _)
Pow(b, n) == IF n = 0 THEN 1 ELSE b * Pow(b, n - 1)

\* Variant of WaitExponential: the wait is not capped.
WaitExponentialUncapped(n) == settings.api_retry_delay * Pow(ExpBase, n - 1)

\* Lines 58-61: wait_exponential(multiplier=api_retry_delay, max=api_timeout),
\* tenacity's sleep after the failed attempt n: multiplier * 2^(n-1), at most max.
WaitExponential(n) ==
    Min(settings.api_retry_delay * Pow(ExpBase, n - 1), settings.api_timeout)

Pending == [kind |-> "pending", type |-> "", status |-> 0]

Returned(r) == [kind |-> "returned", type |-> "", status |-> r.status]

\* Variant of Reraise: the last exception is wrapped in tenacity's RetryError.
RaiseRetryError(e) == [kind |-> "raised", type |-> "tenacity.RetryError", status |-> 0]

\* Line 63: reraise=True, the call raises the last attempt's exception itself.
Reraise(e) == [kind |-> "raised", type |-> e.type, status |-> e.status]

\* ----------------------------------------------- states outside a component
\* A BatchProcessor before process_animals acts on it.
SchedulerFresh ==
    /\ started = 0
    /\ work_queue = <<>>
    /\ unfinished_tasks = 0
    /\ total_batches = 0
    /\ completed_batches = 0
    /\ wpc = [w \in WorkerIds |-> "unstarted"]
    /\ batch_info = [w \in WorkerIds |-> NoBatch]
    /\ animal_details = [w \in WorkerIds |-> <<>>]
    /\ transformed_animals = [w \in WorkerIds |-> <<>>]
    /\ survivors = [w \in WorkerIds |-> {}]
    /\ got = <<>>
    /\ stops = [w \in WorkerIds |-> 0]
    /\ posts = <<>>
    /\ processed = [n \in 1..MaxChunks |-> <<>>]
    /\ counted = [n \in 1..MaxChunks |-> 0]
    /\ failures = 0

\* Nothing has been raised.
NoExceptions == [pager |-> "", scheduler |-> "", run |-> ""]

\* The locals of get_all_animal_ids at its first line (lines 24-26).
PagerAtCall ==
    /\ page = 1
    /\ total_pages = <<>>
    /\ all_animal_ids = <<>>
    /\ page_log = <<>>
    /\ beyond = 0

\* No call of get_all_animal_ids is under way.
PagerIdle ==
    /\ listing = <<>>
    /\ pager_pc = "idle"
    /\ PagerAtCall

\* One _make_request call before its first attempt.
TransportAtCall ==
    /\ attempt_number = 1
    /\ retries_left = AdapterTotal
    /\ sent = 0
    /\ attempt_log = <<>>
    /\ waits = <<>>
    /\ outcome = Pending

\* No _make_request call is under way.
TransportIdle ==
    /\ settings = DefaultSettings
    /\ call_pc = "idle"
    /\ TransportAtCall

\* No call into the transformer is under way.
TransformerIdle ==
    /\ t_pc = "idle"
    /\ t_input = <<>>
    /\ t_output = <<>>
    /\ t_errors = <<>>

\* -------------------------------------------------------------------- Init
\* State at the call of process_animals(animal_ids).
Init ==
    /\ animal_ids \in IdLists
    /\ batch_size \in BatchSizes \cup {0}
    /\ max_workers \in 0..MaxWorkers
    /\ IF batch_size = 0 THEN TRUE
       ELSE TotalBatches(animal_ids, batch_size) <= MaxChunks
    /\ main_pc = "enqueue"
    /\ SchedulerFresh
    /\ run_pc = "direct"
    /\ exc = NoExceptions
    /\ PagerIdle
    /\ TransportIdle
    /\ TransformerIdle

\* ------------------------------------------------------- the calling thread
\* Variant of MainEnqueue: the stop signals are put before the chunks.
MainEnqueueStopsFirst ==
    /\ main_pc = "enqueue"
    /\ batch_size # 0
    /\ work_queue' = PutBatches(PutSentinels(<<>>, max_workers),
                                animal_ids, 0, batch_size)
    /\ unfinished_tasks' = Len(work_queue')
    /\ total_batches' = TotalBatches(animal_ids, batch_size)
    /\ main_pc' = "start"
    /\ UNCHANGED <<upstream, config, started, completed_batches, wpc, batch_info,
                   animal_details, transformed_animals, survivors, history>>

\* Lines 23-37: fill the queue with the chunks and one stop signal per worker.
MainEnqueue ==
    /\ main_pc = "enqueue"
    /\ batch_size # 0
    /\ work_queue' = PutSentinels(PutBatches(<<>>, animal_ids, 0, batch_size),
                                  max_workers)
    /\ unfinished_tasks' = Len(work_queue')
    /\ total_batches' = TotalBatches(animal_ids, batch_size)
    /\ main_pc' = "start"
    /\ UNCHANGED <<upstream, config, started, completed_batches, wpc, batch_info,
                   animal_details, transformed_animals, survivors, history>>

\* Line 27: range(0, len(animal_ids), self.batch_size) raises ValueError for
\* a batch size of zero; nothing was put on the queue, the call raises.
MainRangeRaises ==
    /\ main_pc = "enqueue"
    /\ batch_size = 0
    /\ main_pc' = "raised"
    /\ exc' = [exc EXCEPT !.scheduler = "ValueError"]
    /\ UNCHANGED <<run_pc, pager, transport, transformer, config, started, work_queue,
                   unfinished_tasks, total_batches, completed_batches, wpc,
                   batch_info, animal_details, transformed_animals, survivors,
                   history>>

\* Variant of MainStartWorker: the loop starts one thread more than max_workers.
MainStartWorkerOneMore ==
    /\ main_pc = "start"
    /\ started <= max_workers
    /\ started + 1 \in WorkerIds
    /\ started' = started + 1
    /\ wpc' = [wpc EXCEPT ![started + 1] = "get"]
    /\ UNCHANGED <<upstream, config, main_pc, work_queue, unfinished_tasks, total_batches,
                   completed_batches, batch_info, animal_details,
                   transformed_animals, survivors, history>>

\* Lines 66-71: one iteration of the loop that starts the worker threads.
MainStartWorker ==
    /\ main_pc = "start"
    /\ started < max_workers
    /\ started' = started + 1
    /\ wpc' = [wpc EXCEPT ![started + 1] = "get"]
    /\ UNCHANGED <<upstream, config, main_pc, work_queue, unfinished_tasks, total_batches,
                   completed_batches, batch_info, animal_details,
                   transformed_animals, survivors, history>>

\* Line 72: work_queue.join() returns once unfinished_tasks is zero.
MainQueueJoin ==
    /\ main_pc = "start"
    /\ started >= max_workers
    /\ unfinished_tasks = 0
    /\ main_pc' = "join_workers"
    /\ UNCHANGED <<upstream, config, started, work_queue, unfinished_tasks, total_batches,
                   completed_batches, wpc, batch_info, animal_details,
                   transformed_animals, survivors, history>>

\* Lines 75-79: worker.join() for every worker, then return to the caller.
MainJoinWorkers ==
    /\ main_pc = "join_workers"
    /\ \A w \in Workers : wpc[w] = "exited"
    /\ main_pc' = "returned"
    /\ UNCHANGED <<upstream, config, started, work_queue, unfinished_tasks, total_batches,
                   completed_batches, wpc, batch_info, animal_details,
                   transformed_animals, survivors, history>>

\* ------------------------------------------------------------- etl_worker
\* Variant of WorkerGetBatch: the chunk is read but left on the queue.
WorkerGetBatchPeeks(w) ==
    /\ wpc[w] = "get"
    /\ work_queue # <<>>
    /\ Head(work_queue) # Sentinel
    /\ Len(got) < MaxChunks
    /\ batch_info' = [batch_info EXCEPT ![w] = Head(work_queue)]
    /\ wpc' = [wpc EXCEPT ![w] = "fetch"]
    /\ got' = Append(got, [worker |-> w, batch_num |-> Head(work_queue).batch_num])
    /\ UNCHANGED <<upstream, config, main_pc, started, work_queue, unfinished_tasks,
                   total_batches, completed_batches, animal_details,
                   transformed_animals, survivors, stops, posts, processed,
                   counted, failures>>

\* Variant of WorkerGetBatch: the newest chunk on the queue is taken.
WorkerGetBatchNewest(w) ==
    /\ wpc[w] = "get"
    /\ work_queue # <<>>
    /\ Head(work_queue) # Sentinel
    /\ LET last == CHOOSE i \in 1..Len(work_queue) :
                      /\ work_queue[i] # Sentinel
                      /\ \A j \in (i + 1)..Len(work_queue) : work_queue[j] = Sentinel
       IN /\ work_queue' = SubSeq(work_queue, 1, last - 1)
                             \o SubSeq(work_queue, last + 1, Len(work_queue))
          /\ batch_info' = [batch_info EXCEPT ![w] = work_queue[last]]
          /\ got' = Append(got, [worker |-> w, batch_num |-> work_queue[last].batch_num])
    /\ wpc' = [wpc EXCEPT ![w] = "fetch"]
    /\ UNCHANGED <<upstream, config, main_pc, started, unfinished_tasks, total_batches,
                   completed_batches, animal_details, transformed_animals,
                   survivors, stops, posts, processed, counted, failures>>

\* Lines 43-47: work_queue.get() returns a chunk.
WorkerGetBatch(w) ==
    /\ wpc[w] = "get"
    /\ work_queue # <<>>
    /\ Head(work_queue) # Sentinel
    /\ work_queue' = Tail(work_queue)
    /\ batch_info' = [batch_info EXCEPT ![w] = Head(work_queue)]
    /\ wpc' = [wpc EXCEPT ![w] = "fetch"]
    /\ got' = Append(got, [worker |-> w, batch_num |-> Head(work_queue).batch_num])
    /\ UNCHANGED <<upstream, config, main_pc, started, unfinished_tasks, total_batches,
                   completed_batches, animal_details, transformed_animals,
                   survivors, stops, posts, processed, counted, failures>>

\* Variant of WorkerGetSentinel: the stop signal is left on the queue.
WorkerGetSentinelLeavesIt(w) ==
    /\ wpc[w] = "get"
    /\ work_queue # <<>>
    /\ Head(work_queue) = Sentinel
    /\ wpc' = [wpc EXCEPT ![w] = "exited"]
    /\ stops' = [stops EXCEPT ![w] = @ + 1]
    /\ UNCHANGED <<upstream, config, main_pc, started, work_queue, unfinished_tasks,
                   total_batches, completed_batches, batch_info, animal_details,
                   transformed_animals, survivors, got, posts, processed, counted,
                   failures>>

\* Lines 43-45 and 63: work_queue.get() returns None, the worker leaves its loop.
WorkerGetSentinel(w) ==
    /\ wpc[w] = "get"
    /\ work_queue # <<>>
    /\ Head(work_queue) = Sentinel
    /\ work_queue' = Tail(work_queue)
    /\ wpc' = [wpc EXCEPT ![w] = "exited"]
    /\ stops' = [stops EXCEPT ![w] = @ + 1]
    /\ UNCHANGED <<upstream, config, main_pc, started, unfinished_tasks, total_batches,
                   completed_batches, batch_info, animal_details,
                   transformed_animals, survivors, got, posts, processed, counted,
                   failures>>

\* Line 49: fetch the details of the chunk; any subset of the fetches may fail.
WorkerFetch(w) ==
    /\ wpc[w] = "fetch"
    /\ LET ids == batch_info[w].batch_ids
       IN \E fails \in SUBSET (1..Min(Len(ids), MaxFailPos)) :
            /\ animal_details' = [animal_details EXCEPT
                                    ![w] = FetchAnimalDetailsSequentially(ids, fails)]
            /\ survivors' = [survivors EXCEPT ![w] = (1..Len(ids)) \ fails]
            /\ failures' = failures + Cardinality(fails)
    /\ wpc' = [wpc EXCEPT ![w] = "transform"]
    /\ UNCHANGED <<upstream, config, main_pc, started, work_queue, unfinished_tasks,
                   total_batches, completed_batches, batch_info,
                   transformed_animals, got, stops, posts, processed, counted>>

\* Variant of WorkerTransform: the result is posted even when it is empty.
WorkerTransformAlwaysPosts(w) ==
    /\ wpc[w] = "transform"
    /\ LET details == animal_details[w]
       IN \E errs \in SUBSET (1..Min(Len(details), MaxFailPos)) :
            /\ transformed_animals' = [transformed_animals EXCEPT
                                         ![w] = TransformAnimalsBatch(details, errs)]
            /\ survivors' = [survivors EXCEPT ![w] =
                               DropIndexes(@, Len(batch_info[w].batch_ids), errs)]
            /\ failures' = failures + Cardinality(errs)
    /\ wpc' = [wpc EXCEPT ![w] = "post"]
    /\ UNCHANGED <<upstream, config, main_pc, started, work_queue, unfinished_tasks,
                   total_batches, completed_batches, batch_info, animal_details,
                   got, stops, posts, processed, counted>>

\* Lines 50-51 and 54-55: transform the details; any subset may raise.  An
\* empty result skips the post and goes on to the progress counter.
WorkerTransform(w) ==
    /\ wpc[w] = "transform"
    /\ LET details == animal_details[w]
       IN \E errs \in SUBSET (1..Min(Len(details), MaxFailPos)) :
            LET out == TransformAnimalsBatch(details, errs)
            IN /\ transformed_animals' = [transformed_animals EXCEPT ![w] = out]
               /\ survivors' = [survivors EXCEPT ![w] =
                                 DropIndexes(@, Len(batch_info[w].batch_ids), errs)]
               /\ wpc' = [wpc EXCEPT ![w] = IF out # <<>> THEN "post" ELSE "progress"]
               /\ failures' = failures + Cardinality(errs)
               /\ processed' = IF out # <<>> THEN processed
                               ELSE [processed EXCEPT ![batch_info[w].batch_num] =
                                       Append(@, [worker |-> w,
                                                  fetched |-> Len(details),
                                                  size |-> 0,
                                                  outcome |-> "empty"])]
    /\ UNCHANGED <<upstream, config, main_pc, started, work_queue, unfinished_tasks,
                   total_batches, completed_batches, batch_info, animal_details,
                   got, stops, posts, counted>>

\* Lines 110-116 and 59-60: an oversized batch raises before the network call.
WorkerPostRejected(w) ==
    /\ wpc[w] = "post"
    /\ PostRejected(transformed_animals[w])
    /\ wpc' = [wpc EXCEPT ![w] = "task_done"]
    /\ processed' = [processed EXCEPT ![batch_info[w].batch_num] =
                       Append(@, [worker |-> w,
                                  fetched |-> Len(animal_details[w]),
                                  size |-> Len(transformed_animals[w]),
                                  outcome |-> "rejected"])]
    /\ UNCHANGED <<upstream, config, main_pc, started, work_queue, unfinished_tasks,
                   total_batches, completed_batches, batch_info, animal_details,
                   transformed_animals, survivors, got, stops, posts, counted,
                   failures>>

\* Variant of WorkerPost: a failing post ends the worker thread.
WorkerPostKillsThread(w) ==
    /\ wpc[w] = "post"
    /\ ~PostRejected(transformed_animals[w])
    /\ \E ok \in BOOLEAN :
         /\ posts' = Append(posts, [worker |-> w,
                                    batch_num |-> batch_info[w].batch_num,
                                    batch_ids |-> batch_info[w].batch_ids,
                                    kept |-> survivors[w],
                                    animals |-> transformed_animals[w],
                                    ok |-> ok])
         /\ wpc' = [wpc EXCEPT ![w] = IF ok THEN "progress" ELSE "exited"]
         /\ processed' = [processed EXCEPT ![batch_info[w].batch_num] =
                            Append(@, [worker |-> w,
                                       fetched |-> Len(animal_details[w]),
                                       size |-> Len(transformed_animals[w]),
                                       outcome |-> IF ok THEN "posted" ELSE "failed"])]
         /\ failures' = failures + (IF ok THEN 0 ELSE 1)
    /\ UNCHANGED <<upstream, config, main_pc, started, work_queue, unfinished_tasks,
                   total_batches, completed_batches, batch_info, animal_details,
                   transformed_animals, survivors, got, stops, counted>>

\* Variant of WorkerPost: a failing post is still counted as completed.
WorkerPostCountsFailure(w) ==
    /\ wpc[w] = "post"
    /\ ~PostRejected(transformed_animals[w])
    /\ \E ok \in BOOLEAN :
         /\ posts' = Append(posts, [worker |-> w,
                                    batch_num |-> batch_info[w].batch_num,
                                    batch_ids |-> batch_info[w].batch_ids,
                                    kept |-> survivors[w],
                                    animals |-> transformed_animals[w],
                                    ok |-> ok])
         /\ wpc' = [wpc EXCEPT ![w] = "progress"]
         /\ processed' = [processed EXCEPT ![batch_info[w].batch_num] =
                            Append(@, [worker |-> w,
                                       fetched |-> Len(animal_details[w]),
                                       size |-> Len(transformed_animals[w]),
                                       outcome |-> IF ok THEN "posted" ELSE "failed"])]
         /\ failures' = failures + (IF ok THEN 0 ELSE 1)
    /\ UNCHANGED <<upstream, config, main_pc, started, work_queue, unfinished_tasks,
                   total_batches, completed_batches, batch_info, animal_details,
                   transformed_animals, survivors, got, stops, counted>>

\* Lines 117-127, 52-53 and 59-60: the batch is sent to the sink; the call
\* returns, or raises after the transport's retries.
WorkerPost(w) ==
    /\ wpc[w] = "post"
    /\ ~PostRejected(transformed_animals[w])
    /\ \E ok \in BOOLEAN :
         /\ posts' = Append(posts, [worker |-> w,
                                    batch_num |-> batch_info[w].batch_num,
                                    batch_ids |-> batch_info[w].batch_ids,
                                    kept |-> survivors[w],
                                    animals |-> transformed_animals[w],
                                    ok |-> ok])
         /\ wpc' = [wpc EXCEPT ![w] = IF ok THEN "progress" ELSE "task_done"]
         /\ processed' = [processed EXCEPT ![batch_info[w].batch_num] =
                            Append(@, [worker |-> w,
                                       fetched |-> Len(animal_details[w]),
                                       size |-> Len(transformed_animals[w]),
                                       outcome |-> IF ok THEN "posted" ELSE "failed"])]
         /\ failures' = failures + (IF ok THEN 0 ELSE 1)
    /\ UNCHANGED <<upstream, config, main_pc, started, work_queue, unfinished_tasks,
                   total_batches, completed_batches, batch_info, animal_details,
                   transformed_animals, survivors, got, stops, counted>>

\* Variant of WorkerProgress: no lock around the increment, so that one racing
\* with another worker's increment is lost.
WorkerProgressUnlocked(w) ==
    /\ wpc[w] = "progress"
    /\ completed_batches' =
          IF \E v \in WorkerIds : v # w /\ wpc[v] = "progress"
          THEN completed_batches ELSE completed_batches + 1
    /\ wpc' = [wpc EXCEPT ![w] = "task_done"]
    /\ counted' = [counted EXCEPT ![batch_info[w].batch_num] = @ + 1]
    /\ UNCHANGED <<upstream, config, main_pc, started, work_queue, unfinished_tasks,
                   total_batches, batch_info, animal_details,
                   transformed_animals, survivors, got, stops, posts, processed,
                   failures>>

\* Lines 56-58: with progress_lock: completed_batches += 1
WorkerProgress(w) ==
    /\ wpc[w] = "progress"
    /\ completed_batches' = completed_batches + 1
    /\ wpc' = [wpc EXCEPT ![w] = "task_done"]
    /\ counted' = [counted EXCEPT ![batch_info[w].batch_num] = @ + 1]
    /\ UNCHANGED <<upstream, config, main_pc, started, work_queue, unfinished_tasks,
                   total_batches, batch_info, animal_details,
                   transformed_animals, survivors, got, stops, posts, processed,
                   failures>>

\* Line 61: work_queue.task_done(), then back to the top of the loop.
WorkerTaskDone(w) ==
    /\ wpc[w] = "task_done"
    /\ unfinished_tasks' = unfinished_tasks - 1
    /\ wpc' = [wpc EXCEPT ![w] = "get"]
    /\ UNCHANGED <<upstream, config, main_pc, started, work_queue, total_batches,
                   completed_batches, batch_info, animal_details,
                   transformed_animals, survivors, history>>

WorkerStep(w) ==
    \/ WorkerGetBatch(w)
    \/ WorkerGetSentinel(w)
    \/ WorkerFetch(w)
    \/ WorkerTransform(w)
    \/ WorkerPostRejected(w)
    \/ WorkerPost(w)
    \/ WorkerProgress(w)
    \/ WorkerTaskDone(w)

MainStep ==
    \/ MainEnqueue
    \/ MainRangeRaises
    \/ MainStartWorker
    \/ MainQueueJoin
    \/ MainJoinWorkers

Next ==
    \/ MainStep
    \/ \E w \in WorkerIds : WorkerStep(w)

Spec == Init /\ [][Next]_vars

\* Threads are scheduled fairly: a thread that can take a step eventually does.
FairSpec ==
    /\ Spec
    /\ WF_vars(MainStep)
    /\ \A w \in WorkerIds : WF_vars(WorkerStep(w))

\* ----------------------------------------------------- get_all_animal_ids
\* Line 29: the condition of the while loop.
PagerLoops == IF total_pages = <<>> THEN TRUE ELSE page <= total_pages[1]

\* page += 1. Every page after the listing's last one is answered alike, so
\* the numbers above LastPage are kept as the single value LastPage + 1.
NextPage == IF page > LastPage THEN page ELSE page + 1

\* The request for the current page, written to the history: page_log for a
\* page of the listing; beyond, which counts 0, 1, 2, 1, 2, ..., for a later one.
Requested(how) ==
    IF page <= LastPage
    THEN /\ page_log' = Append(page_log, [page |-> page, outcome |-> how])
         /\ UNCHANGED beyond
    ELSE /\ beyond' = IF beyond = 1 THEN 2 ELSE 1
         /\ UNCHANGED page_log

\* Variant of PagerFetchOk: a page's identifiers are put in front.
PagerFetchOkPrepends ==
    /\ pager_pc = "loop"
    /\ PagerLoops
    /\ all_animal_ids' = AnimalsPage(page).items \o all_animal_ids
    /\ total_pages' = IF total_pages = <<>>
                      THEN <<AnimalsPage(page).total_pages>> ELSE total_pages
    /\ page' = NextPage
    /\ Requested("ok")
    /\ UNCHANGED <<run_pc, exc, listing, pager_pc, transport, transformer, config, main_pc,
                   started, work_queue, unfinished_tasks, total_batches,
                   completed_batches, wpc, batch_info, animal_details,
                   transformed_animals, survivors, history>>

\* Lines 29-45: one iteration whose _fetch_animals_page(page) returns a page.
PagerFetchOk ==
    /\ pager_pc = "loop"
    /\ PagerLoops
    /\ all_animal_ids' = all_animal_ids \o AnimalsPage(page).items
    /\ total_pages' = IF total_pages = <<>>
                      THEN <<AnimalsPage(page).total_pages>> ELSE total_pages
    /\ page' = NextPage
    /\ Requested("ok")
    /\ UNCHANGED <<run_pc, exc, listing, pager_pc, transport, transformer, config, main_pc,
                   started, work_queue, unfinished_tasks, total_batches,
                   completed_batches, wpc, batch_info, animal_details,
                   transformed_animals, survivors, history>>

\* Variant of PagerFetchFails: the failed page is requested again.
PagerFetchFailsStays ==
    /\ pager_pc = "loop"
    /\ PagerLoops
    /\ page <= LastPage
    /\ Len(page_log) <= LastPage
    /\ \E how \in FetchFailures : Requested(how)
    /\ UNCHANGED <<run_pc, exc, listing, pager_pc, page, total_pages, all_animal_ids,
                   transport, transformer, config, main_pc,
                   started, work_queue, unfinished_tasks, total_batches,
                   completed_batches, wpc, batch_info, animal_details,
                   transformed_animals, survivors, history>>

\* Lines 29-31 and 47-52: one iteration whose _fetch_animals_page(page)
\* raises; the handler logs, advances the page and continues.
PagerFetchFails ==
    /\ pager_pc = "loop"
    /\ PagerLoops
    /\ page' = NextPage
    /\ \E how \in FetchFailures : Requested(how)
    /\ UNCHANGED <<run_pc, exc, listing, pager_pc, total_pages, all_animal_ids,
                   transport, transformer, config, main_pc,
                   started, work_queue, unfinished_tasks, total_batches,
                   completed_batches, wpc, batch_info, animal_details,
                   transformed_animals, survivors, history>>

\* Lines 29 and 57: the loop condition is false, the list is returned.
PagerReturn ==
    /\ pager_pc = "loop"
    /\ ~PagerLoops
    /\ pager_pc' = "returned"
    /\ UNCHANGED <<run_pc, exc, listing, page, total_pages, all_animal_ids, page_log,
                   beyond, transport, transformer, config, main_pc,
                   started, work_queue, unfinished_tasks, total_batches,
                   completed_batches, wpc, batch_info, animal_details,
                   transformed_animals, survivors, history>>

\* Lines 29-52: the user interrupts the call during a fetch. KeyboardInterrupt
\* is no Exception, the handler of line 47 lets it out of the call.
PagerInterrupted ==
    /\ pager_pc = "loop"
    /\ PagerLoops
    /\ pager_pc' = "raised"
    /\ exc' = [exc EXCEPT !.pager = "KeyboardInterrupt"]
    /\ UNCHANGED <<run_pc, listing, page, total_pages, all_animal_ids, page_log,
                   beyond, transport, transformer, config, main_pc,
                   started, work_queue, unfinished_tasks, total_batches,
                   completed_batches, wpc, batch_info, animal_details,
                   transformed_animals, survivors, history>>

PagerStep ==
    \/ PagerFetchOk
    \/ PagerFetchFails
    \/ PagerReturn
    \/ PagerInterrupted

\* State at a call of get_all_animal_ids() against some listing.
PagerInit ==
    /\ listing \in Listings
    /\ pager_pc = "loop"
    /\ PagerAtCall
    /\ run_pc = "direct"
    /\ exc = NoExceptions
    /\ animal_ids = <<>>
    /\ batch_size = MaxBatch
    /\ max_workers = MaxWorkers
    /\ main_pc = "idle"
    /\ SchedulerFresh
    /\ TransportIdle
    /\ TransformerIdle

PagerSpec == PagerInit /\ [][PagerStep]_vars

\* The thread that runs get_all_animal_ids is not stopped for ever.
PagerFairSpec == PagerSpec /\ WF_vars(PagerStep)

\* ------------------------------------------------------- ETLPipeline.run
\* Variant of RunExtracted: loading starts on the identifiers gathered so
\* far, while get_all_animal_ids is still in its loop.
RunExtractedEarly ==
    /\ run_pc = "extract"
    /\ all_animal_ids # <<>>
    /\ run_pc' = "load"
    /\ animal_ids' = all_animal_ids
    /\ main_pc' = "enqueue"
    /\ UNCHANGED <<exc, pager, transport, transformer, batch_size, max_workers,
                   started, work_queue, unfinished_tasks, total_batches,
                   completed_batches, wpc, batch_info, animal_details,
                   transformed_animals, survivors, history>>

\* Variant of NoAnimals: no list counts as empty.
NoAnimalsNever(ids) == FALSE

\* pipeline.py 34: "if not animal_ids".
NoAnimals(ids) == ids = <<>>

\* pipeline.py 33-40: _extract_animal_ids() has returned; run returns on an
\* empty list and calls process_animals(animal_ids) otherwise.
RunExtracted ==
    /\ run_pc = "extract"
    /\ pager_pc = "returned"
    /\ IF NoAnimals(all_animal_ids)
       THEN /\ run_pc' = "returned"
            /\ UNCHANGED <<animal_ids, main_pc>>
       ELSE /\ run_pc' = "load"
            /\ animal_ids' = all_animal_ids
            /\ main_pc' = "enqueue"
    /\ UNCHANGED <<exc, pager, transport, transformer, batch_size, max_workers,
                   started, work_queue, unfinished_tasks, total_batches,
                   completed_batches, wpc, batch_info, animal_details,
                   transformed_animals, survivors, history>>

\* Variant of Propagate: the stage's exception is replaced by one of the
\* pipeline's own.
PropagateWrapped(e) == "PipelineError"

\* pipeline.py 51, 55, 65 and 74: every handler ends with a bare raise, the
\* exception it caught goes on unchanged.
Propagate(e) == e

\* pipeline.py 33 and 49-51: get_all_animal_ids raised; the handler of
\* _extract_animal_ids (63) is for Exception and does not see a
\* KeyboardInterrupt, run's own handler logs and raises it again.
RunExtractionRaised ==
    /\ run_pc = "extract"
    /\ pager_pc = "raised"
    /\ run_pc' = "raised"
    /\ exc' = [exc EXCEPT !.run = Propagate(exc.pager)]
    /\ UNCHANGED <<pager, transport, transformer, config, main_pc,
                   started, work_queue, unfinished_tasks, total_batches,
                   completed_batches, wpc, batch_info, animal_details,
                   transformed_animals, survivors, history>>

\* pipeline.py 40, 72-74 and 52-55: process_animals raised; the handlers of
\* _process_and_load_animals and of run log and raise it again.
RunLoadRaised ==
    /\ run_pc = "load"
    /\ main_pc = "raised"
    /\ run_pc' = "raised"
    /\ exc' = [exc EXCEPT !.run = Propagate(exc.scheduler)]
    /\ UNCHANGED <<pager, transport, transformer, config, main_pc,
                   started, work_queue, unfinished_tasks, total_batches,
                   completed_batches, wpc, batch_info, animal_details,
                   transformed_animals, survivors, history>>

\* State at a call of ETLPipeline.run() against some listing.
RunInit ==
    /\ listing \in Listings
    /\ pager_pc = "loop"
    /\ PagerAtCall
    /\ run_pc = "extract"
    /\ exc = NoExceptions
    /\ animal_ids = <<>>
    /\ batch_size \in 0..MaxBatch
    /\ max_workers \in 0..MaxWorkers
    /\ IF batch_size = 0 THEN TRUE
       ELSE TotalBatches(ListedIds(listing, LastPage), batch_size) <= MaxChunks
    /\ main_pc = "idle"
    /\ SchedulerFresh
    /\ TransportIdle
    /\ TransformerIdle

\* The two ways in: run() is called, or process_animals is called directly.
PipelineInit == RunInit \/ Init

PipelineNext ==
    \/ PagerStep
    \/ RunExtracted
    \/ RunExtractionRaised
    \/ RunLoadRaised
    \/ Next

PipelineSpec == PipelineInit /\ [][PipelineNext]_vars

\* ----------------------------------------------------------- _make_request
\* Lines 70-72: the network request is answered with 200; raise_for_status()
\* passes and the response is returned.
RequestSucceeds ==
    /\ call_pc = "request"
    /\ sent' = sent + 1
    /\ attempt_log' = Append(attempt_log,
                             [attempt |-> attempt_number, type |-> "ok", status |-> 200])
    /\ outcome' = Returned(Response(200))
    /\ call_pc' = "returned"
    /\ UNCHANGED <<settings, attempt_number, retries_left, waits, run_pc, exc, pager, transformer,
                   config, main_pc, started, work_queue, unfinished_tasks,
                   total_batches, completed_batches, wpc, batch_info,
                   animal_details, transformed_animals, survivors, history>>

\* Line 70 under the adapter of lines 41-53: the network request breaks down
\* or is answered with a status of status_forcelist while the Retry has
\* retries left; urllib3 sends it again inside the same session.request.
AdapterRetries ==
    /\ call_pc = "request"
    /\ retries_left > 0
    /\ \E r \in Breakdowns \cup Responses : AdapterRetriesOn(r)
    /\ sent' = sent + 1
    /\ retries_left' = retries_left - 1
    /\ UNCHANGED <<settings, call_pc, attempt_number, attempt_log, waits, outcome,
                   run_pc, exc, pager, transformer,
                   config, main_pc, started, work_queue, unfinished_tasks,
                   total_batches, completed_batches, wpc, batch_info,
                   animal_details, transformed_animals, survivors, history>>

\* Lines 55-72: the attempt ends with an exception: the adapter gave up, or
\* raise_for_status() raised, or the request was interrupted. tenacity then
\* sleeps and calls _make_request again, or lets the exception out.
AttemptFails ==
    /\ call_pc = "request"
    /\ \E r \in Breakdowns \cup Responses \cup {Interrupt} :
        /\ \/ AdapterRetriesOn(r) /\ retries_left = 0
           \/ ~AdapterRetriesOn(r) /\ RaisesForStatus(r)
           \/ r = Interrupt
        /\ sent' = sent + 1
        /\ attempt_log' = Append(attempt_log,
                                 [attempt |-> attempt_number,
                                  type |-> ExceptionOf(r).type,
                                  status |-> ExceptionOf(r).status])
        /\ IF RetryIfExceptionType(ExceptionOf(r)) /\ ~StopAfterAttempt(attempt_number)
           THEN /\ waits' = Append(waits, WaitExponential(attempt_number))
                /\ attempt_number' = attempt_number + 1
                /\ retries_left' = AdapterTotal
                /\ UNCHANGED <<call_pc, outcome>>
           ELSE /\ outcome' = Reraise(ExceptionOf(r))
                /\ call_pc' = "raised"
                /\ UNCHANGED <<waits, attempt_number, retries_left>>
    /\ UNCHANGED <<settings, run_pc, exc, pager, transformer,
                   config, main_pc, started, work_queue, unfinished_tasks,
                   total_batches, completed_batches, wpc, batch_info,
                   animal_details, transformed_animals, survivors, history>>

\* State at a call of _make_request under some settings.
TransportInit ==
    /\ settings \in SettingsSet
    /\ call_pc = "request"
    /\ TransportAtCall
    /\ TransformerIdle
    /\ run_pc = "direct"
    /\ exc = NoExceptions
    /\ PagerIdle
    /\ animal_ids = <<>>
    /\ batch_size = MaxBatch
    /\ max_workers = MaxWorkers
    /\ main_pc = "idle"
    /\ SchedulerFresh

TransportNext ==
    \/ RequestSucceeds
    \/ AdapterRetries
    \/ AttemptFails

TransportSpec == TransportInit /\ [][TransportNext]_vars

\* ------------------------------------------- transformer.py and models.py
\* One call into the transformer on its own: transform_animals_batch on a list
\* of detail records, TransformedAnimal(...) on raw field values, or
\* AnimalDetail(...) on raw field values followed by transform_animal.
FriendLists == {<<>>, << <<"a">>, <<"b">> >>, << <<"a">>, <<>> >>}

\* Lists of detail records; the ids cycle through 1..MaxId
DetailBatches ==
    UNION {{[k \in 1..n |-> DetailRecord(((k - 1) % MaxId) + 1, f[k][1], f[k][2])] :
                f \in [1..n -> BornAts \X FriendLists]} : n \in 0..MaxRecords}

FriendsValues ==
    {NoneValue} \cup {StrValue(str) : str \in Strings} \cup {ListValue(l) : l \in FriendLists}

RawRecords ==
    {[id |-> 1, born_at |-> b, friends |-> f, stage |-> "raw"] :
        b \in BornAts, f \in FriendsValues}

rest == <<config, main_pc, started, work_queue, unfinished_tasks, total_batches,
          completed_batches, wpc, batch_info, animal_details, transformed_animals,
          survivors, history, run_pc, exc, pager, transport>>

\* transform_animals_batch(animal_details): returns the transformed records;
\* the loop's except clause collects the failing ones
TransformBatchCall ==
    /\ t_pc = "batch"
    /\ t_output' = TransformAnimalsBatch(t_input, RaisingPositions(t_input))
    /\ t_errors' = CollectedErrors(t_input)
    /\ t_pc' = "returned"
    /\ UNCHANGED <<t_input, rest>>

\* TransformedAnimal(id=..., born_at=..., friends=...) with validators that pass
ConstructTransformed ==
    /\ t_pc = "construct"
    /\ ~BornAtRaises(t_input.born_at)
    /\ t_output' = <<TransformedAnimal(t_input)>>
    /\ t_pc' = "constructed"
    /\ UNCHANGED <<t_input, t_errors, rest>>

\* TransformedAnimal(...) when transform_born_at raises
ConstructRaises ==
    /\ t_pc = "construct"
    /\ BornAtRaises(t_input.born_at)
    /\ t_pc' = "raised"
    /\ UNCHANGED <<t_input, t_output, t_errors, rest>>

\* AnimalDetail(...) on a friends list
DetailConstructed ==
    /\ t_pc = "detail"
    /\ ~AnimalDetailRejects(t_input)
    /\ t_output' = <<DetailRecord(t_input.id, t_input.born_at, t_input.friends.value)>>
    /\ t_pc' = "animal"
    /\ UNCHANGED <<t_input, t_errors, rest>>

\* AnimalDetail(...) on friends that are no list: ValidationError
DetailRejected ==
    /\ t_pc = "detail"
    /\ AnimalDetailRejects(t_input)
    /\ t_pc' = "rejected"
    /\ UNCHANGED <<t_input, t_output, t_errors, rest>>

\* transform_animal(animal_detail) returning the transformed record
TransformAnimalReturns ==
    /\ t_pc = "animal"
    /\ ~TransformAnimalRaises(t_output[1])
    /\ t_output' = <<TransformedAnimal(t_output[1])>>
    /\ t_pc' = "transformed"
    /\ UNCHANGED <<t_input, t_errors, rest>>

\* transform_animal(animal_detail) logging and raising again
TransformAnimalReraises ==
    /\ t_pc = "animal"
    /\ TransformAnimalRaises(t_output[1])
    /\ t_pc' = "raised"
    /\ UNCHANGED <<t_input, t_output, t_errors, rest>>

TransformInit ==
    /\ \/ t_pc = "batch" /\ t_input \in DetailBatches
       \/ t_pc \in {"construct", "detail"} /\ t_input \in RawRecords
    /\ t_output = <<>>
    /\ t_errors = <<>>
    /\ run_pc = "direct"
    /\ exc = NoExceptions
    /\ PagerIdle
    /\ TransportIdle
    /\ animal_ids = <<>>
    /\ batch_size = MaxBatch
    /\ max_workers = MaxWorkers
    /\ main_pc = "idle"
    /\ SchedulerFresh

TransformNext ==
    \/ TransformBatchCall
    \/ ConstructTransformed
    \/ ConstructRaises
    \/ DetailConstructed
    \/ DetailRejected
    \/ TransformAnimalReturns
    \/ TransformAnimalReraises

TransformSpec == TransformInit /\ [][TransformNext]_vars

\* ------------------------------------------------- definitions for the claims
\* Smallest n with n * B >= L, i.e. ceil(L / B).
CeilDiv(L, B) == CHOOSE n \in 0..L : n * B >= L /\ (n = 0 \/ (n - 1) * B < L)

\* The number of chunks of the call; none when the call raises on batch_size = 0.
NumChunks == IF batch_size = 0 THEN 0 ELSE CeilDiv(Len(animal_ids), batch_size)

\* The identifiers at the 0-based positions [k*B, min((k+1)*B, L)) for chunk number k+1.
ExpectedChunk(n) ==
    LET lo == (n - 1) * batch_size
        hi == Min(n * batch_size, Len(animal_ids))
    IN [j \in 1..(hi - lo) |-> animal_ids[lo + j]]

\* Indexes of the entries of a history sequence that are about chunk n.
EntriesOf(h, n) == {i \in 1..Len(h) : h[i].batch_num = n}

\* The queue has been filled, every worker thread was started and has left its loop.
WorkersExited ==
    /\ max_workers >= 1
    /\ main_pc # "enqueue"
    /\ started = max_workers
    /\ \A w \in Workers : wpc[w] = "exited"

Ids(records) == [k \in 1..Len(records) |-> records[k].id]

ChunksOnQueue == SelectSeq(work_queue, LAMBDA item : item # Sentinel)

Raised(n) == {i \in 1..Len(processed[n]) : processed[n][i].outcome \in {"failed", "rejected"}}

\* C1: for a non-empty identifier list and at least one worker,
\* process_animals eventually returns to its caller (it passes the
\* work_queue.join() / worker.join() barrier).
C1_ProcessAnimalsReturns ==
    (Len(animal_ids) >= 1 /\ max_workers >= 1 /\ batch_size >= 1) =>
        <>(main_pc = "returned")

\* C2: no chunk is dequeued or processed more than once, and when all workers
\* have exited every chunk was dequeued exactly once and processed exactly
\* once, by the worker that dequeued it.
C2_EachChunkExactlyOnce ==
    /\ \A n \in 1..NumChunks :
         /\ Cardinality(EntriesOf(got, n)) <= 1
         /\ Len(processed[n]) <= 1
    /\ WorkersExited =>
         \A n \in 1..NumChunks :
           /\ Cardinality(EntriesOf(got, n)) = 1
           /\ Len(processed[n]) = 1
           /\ \A i \in EntriesOf(got, n) : got[i].worker = processed[n][1].worker

C2_Witness ==
    /\ WorkersExited
    /\ max_workers >= 2
    /\ NumChunks >= 2
    /\ \E i, j \in 1..Len(got) : got[i].worker # got[j].worker

\* C3: no call of the sink carries more than 100 records; a set of more than
\* 100 transformed records is rejected without any call of the sink, and a
\* set of exactly 100 is sent to the sink.
C3_SinkNeverOverLimit ==
    /\ \A i \in 1..Len(posts) : Len(posts[i].animals) <= 100
    /\ \A n \in 1..NumChunks : \A i \in 1..Len(processed[n]) :
         /\ processed[n][i].size > 100 <=> processed[n][i].outcome = "rejected"
         /\ processed[n][i].size > 100 => EntriesOf(posts, n) = {}
         /\ processed[n][i].size = 100 =>
              \E j \in EntriesOf(posts, n) : Len(posts[j].animals) = 100

C3_Witness ==
    /\ batch_size > 100
    /\ posts = <<>>
    /\ Len(processed[1]) = 1
    /\ processed[1][1].outcome = "rejected"
    /\ processed[1][1].size > 100

\* C4: the scheduler enqueues exactly ceil(L/B) chunks, each non-empty and of
\* size <= B, chunk k holding positions [k*B, min((k+1)*B, L)), and the chunks
\* concatenated in order give back the identifier list.
RECURSIVE ConcatChunks(_, _)
ConcatChunks(q, n) ==
    IF n = 0 THEN <<>> ELSE ConcatChunks(q, n - 1) \o q[n].batch_ids

C4_Partition ==
    (main_pc = "start" /\ started = 0) =>
      /\ Len(ChunksOnQueue) = NumChunks
      /\ total_batches = NumChunks
      /\ \A n \in 1..Len(ChunksOnQueue) :
           /\ ChunksOnQueue[n].batch_num = n
           /\ ChunksOnQueue[n].batch_ids # <<>>
           /\ Len(ChunksOnQueue[n].batch_ids) <= batch_size
           /\ ChunksOnQueue[n].batch_ids = ExpectedChunk(n)
      /\ ConcatChunks(ChunksOnQueue, Len(ChunksOnQueue)) = animal_ids

C4_Witness ==
    /\ main_pc = "start"
    /\ started = 0
    /\ Len(animal_ids) = 3
    /\ batch_size = 2
    /\ Len(ChunksOnQueue) = 2
    /\ Len(ChunksOnQueue[2].batch_ids) = 1

\* C5: the batch sent to the sink for a chunk holds exactly the records of
\* the chunk's identifiers whose fetch and transformation succeeded, in the
\* chunk's order; a failing identifier does not stop the rest.
C5_PostedBatchIsSurvivors ==
    \A i \in 1..Len(posts) :
      LET p == posts[i]
      IN /\ p.kept \subseteq 1..Len(p.batch_ids)
         /\ Len(p.animals) = Cardinality(p.kept)
         /\ LET alive == InOrder(p.kept, Len(p.batch_ids))
            IN \A k \in 1..Len(p.animals) :
                 /\ p.animals[k].id = p.batch_ids[alive[k]]
                 /\ p.animals[k].stage = "transformed"

C5_Witness ==
    \E i \in 1..Len(posts) :
      /\ posts[i].batch_ids = <<1, 2>>
      /\ posts[i].kept = {1}
      /\ Ids(posts[i].animals) = <<1>>

\* C6: with no failing fetch, transformation or post and B <= 100, when the
\* workers have exited there were exactly ceil(L/B) calls of the sink, one per
\* chunk, each carrying the chunk's identifiers in order.
C6_OnePostPerChunk ==
    (WorkersExited /\ failures = 0 /\ batch_size <= 100) =>
      /\ Len(posts) = NumChunks
      /\ \A n \in 1..NumChunks :
           /\ Cardinality(EntriesOf(posts, n)) = 1
           /\ \A i \in EntriesOf(posts, n) :
                Ids(posts[i].animals) = ExpectedChunk(n)

C6_Witness ==
    /\ WorkersExited
    /\ failures = 0
    /\ Len(animal_ids) = 3
    /\ batch_size = 2
    /\ max_workers = 1
    /\ Len(posts) = 2
    /\ Len(posts[1].animals) = 2
    /\ Len(posts[2].animals) = 1

\* C7: a chunk whose processing fails does not end its worker or the run: a
\* worker leaves its loop only by taking a stop signal, and when the workers
\* have exited every chunk was processed.
C7_FailureDoesNotStopWorker ==
    /\ \A w \in Workers : wpc[w] = "exited" => stops[w] = 1
    /\ \A n \in 1..NumChunks : \A i \in Raised(n) :
         \/ wpc[processed[n][i].worker] # "exited"
         \/ stops[processed[n][i].worker] = 1
    /\ WorkersExited => \A n \in 1..NumChunks : processed[n] # <<>>

C7_Witness ==
    /\ WorkersExited
    /\ NumChunks >= 2
    /\ Raised(1) # {}
    /\ processed[2] # <<>>
    /\ processed[2][1].worker = processed[1][1].worker
    /\ processed[2][1].outcome = "posted"

\* C8: every worker eventually exits, having consumed exactly one stop
\* signal, with no chunk left on the queue (in a call that gets to start its
\* workers: one with batch_size = 0 raises before).
C8_WorkersEventuallyExit ==
    batch_size >= 1 =>
        <>[](/\ started = max_workers
             /\ \A w \in Workers : wpc[w] = "exited" /\ stops[w] = 1
             /\ max_workers >= 1 => ChunksOnQueue = <<>>)

C8_Witness ==
    /\ WorkersExited
    /\ max_workers = 2
    /\ NumChunks >= 2
    /\ failures > 0
    /\ \A w \in Workers : stops[w] = 1

\* C9 as claimed: when all workers have exited the counter equals the total
\* number of chunks, whatever failed.
C9_CounterCountsEveryChunk ==
    WorkersExited => completed_batches = total_batches

\* C9 as amended: the counter is incremented exactly once for every chunk
\* whose processing did not raise (posted, or nothing to post) and not at all
\* for a chunk whose post was rejected or failed.
C9_CounterCountsCompletedChunks ==
    /\ \A n \in 1..MaxChunks : counted[n] <= 1
    /\ WorkersExited =>
         /\ \A n \in 1..NumChunks :
              counted[n] = IF Raised(n) = {} THEN 1 ELSE 0
         /\ completed_batches =
              Cardinality({n \in 1..NumChunks : Raised(n) = {}})

C9_Witness ==
    /\ WorkersExited
    /\ total_batches = 2
    /\ completed_batches = 1
    /\ Raised(1) # {}

RECURSIVE SumCounted(_)
SumCounted(n) == IF n = 0 THEN 0 ELSE SumCounted(n - 1) + counted[n]

\* C10: a chunk whose every fetch failed makes no call of the sink, raises no
\* error and is counted once in the completed-chunk counter.
C10_AllFetchesFailed ==
    \A n \in 1..NumChunks : \A i \in 1..Len(processed[n]) :
      processed[n][i].fetched = 0 =>
        /\ processed[n][i].outcome = "empty"
        /\ EntriesOf(posts, n) = {}
        /\ \/ /\ wpc[processed[n][i].worker] = "progress"
              /\ batch_info[processed[n][i].worker].batch_num = n
              /\ counted[n] = 0
           \/ counted[n] = 1
        /\ completed_batches = SumCounted(MaxChunks)

C10_Witness ==
    /\ WorkersExited
    /\ NumChunks = 1
    /\ Len(processed[1]) = 1
    /\ processed[1][1].fetched = 0
    /\ processed[1][1].outcome = "empty"
    /\ counted[1] = 1
    /\ posts = <<>>
    /\ completed_batches = 1

\* ------------------------------------------------------------ the pipeline
\* A step in which a worker issues its chunk's detail fetches, or a sink post.
LoadRequest ==
    \/ \E w \in WorkerIds : wpc[w] = "fetch" /\ wpc'[w] # "fetch"
    \/ posts' # posts

\* A step in which get_all_animal_ids requests a listing page.
ListingRequest == page_log' # page_log \/ beyond' # beyond

\* C11: in a run of the pipeline, extraction is over before loading begins:
\* a detail fetch or a sink post is issued only after get_all_animal_ids has
\* returned, and no listing page is requested once one has been issued.
C11_ExtractionBeforeLoading ==
    [][run_pc # "direct" =>
          /\ LoadRequest => pager_pc = "returned" /\ run_pc = "load"
          /\ ListingRequest =>
                /\ pager_pc = "loop"
                /\ posts = <<>>
                /\ \A w \in WorkerIds : wpc[w] = "unstarted"]_vars

\* A run has requested several listing pages, one of which failed, and a
\* worker has posted a batch of the extracted identifiers.
C11_Witness ==
    /\ run_pc = "load"
    /\ Len(page_log) >= 2
    /\ \E i \in 1..Len(page_log) : page_log[i].outcome # "ok"
    /\ \E i \in 1..Len(posts) : posts[i].ok

\* ----------------------------------------------------------- the transport
\* The ways an attempt ends that the retry policy is stated for: connection
\* failure, timeout, and a status of the retry set.
TransientEnds == {"ConnectionError", "Timeout", "RetryError"}

CallEnded == call_pc \in {"returned", "raised"}

LastAttempt == attempt_log[Len(attempt_log)]

\* C12: a call is retried only on transient conditions: an attempt that ended
\* in any other way (an error status outside the retry set among them) is the
\* call's last attempt, and the call has ended with it.
C12_RetriedOnlyOnTransient ==
    \A i \in 1..Len(attempt_log) :
        attempt_log[i].type \notin TransientEnds => i = Len(attempt_log) /\ CallEnded

\* C13: one call issues at most api_max_retries network requests in total.
C13_AtMostMaxAttemptsRequests == sent <= settings.api_max_retries

\* C14: an attempt that succeeds is the call's last and its response is what
\* the call returns; a call whose attempts all failed raises the exception of
\* its last attempt and returns nothing.
C14_ReturnsFirstSuccessOrRaisesLast ==
    /\ \A i \in 1..Len(attempt_log) :
          attempt_log[i].type = "ok" => i = Len(attempt_log) /\ call_pc = "returned"
    /\ call_pc = "returned" =>
          /\ LastAttempt.type = "ok"
          /\ outcome = Returned(Response(LastAttempt.status))
    /\ call_pc = "raised" =>
          /\ LastAttempt.type # "ok"
          /\ outcome = [kind |-> "raised", type |-> LastAttempt.type,
                        status |-> LastAttempt.status]
    /\ ~CallEnded => outcome = Pending
    /\ Len(attempt_log) = settings.api_max_retries => CallEnded

\* Every allowed attempt of a call has failed, the last one differently from
\* the first, and the call has raised.
C14_Witness ==
    /\ call_pc = "raised"
    /\ Len(attempt_log) = settings.api_max_retries
    /\ Len(attempt_log) >= 2
    /\ attempt_log[1].type # LastAttempt.type

C16_WaitUsesConfiguredFactor ==
    \A k \in 1..Len(waits) :
        waits[k] = Min(settings.api_retry_delay
                         * Pow(settings.api_backoff_multiplier, k - 1),
                       settings.api_timeout)

\* ---------------------------------------------------------- the paginator
\* The pages of the listing whose fetch succeeded.
OkPages == {page_log[i].page : i \in {j \in 1..Len(page_log) : page_log[j].outcome = "ok"}}

\* The identifiers of the pages 1..n whose fetch succeeded, in page order.
RECURSIVE IdsOfOkPages(_)
IdsOfOkPages(n) ==
    IF n = 0 THEN <<>>
    ELSE IdsOfOkPages(n - 1) \o (IF n \in OkPages THEN listing[n] ELSE <<>>)

\* C17: get_all_animal_ids returns exactly the identifiers of the pages whose
\* fetch succeeded, in page order and within a page in the page's order, with
\* repeated identifiers kept.
C17_ReturnsIdsOfFetchedPagesInOrder ==
    pager_pc = "returned" => all_animal_ids = IdsOfOkPages(LastPage)

\* A call has returned after two pages succeeded and one failed, and the list
\* it returns holds an identifier twice.
C17_Witness ==
    /\ pager_pc = "returned"
    /\ Cardinality(OkPages) >= 2
    /\ Len(page_log) > Cardinality(OkPages)
    /\ \E i, j \in 1..Len(all_animal_ids) : i < j /\ all_animal_ids[i] = all_animal_ids[j]

\* C18: a page whose fetch fails is skipped: it is never requested again, the
\* page counter moves on, every later page of the listing is still requested,
\* and the call returns the identifiers of the pages that did succeed.
C18_FailedPageIsSkipped ==
    /\ \A i \in 1..Len(page_log) : page_log[i].page = i
    /\ Len(page_log) < page
    /\ pager_pc = "returned" =>
          /\ Len(page_log) = LastPage
          /\ \A p \in OkPages : \A k \in 1..Len(listing[p]) :
                \E i \in 1..Len(all_animal_ids) : all_animal_ids[i] = listing[p][k]

\* The fetch of page 1 of 3 failed, pages 2 and 3 were fetched, and the call
\* returned their identifiers.
C18_Witness ==
    /\ pager_pc = "returned"
    /\ LastPage = 3
    /\ page_log[1].outcome # "ok"
    /\ OkPages = {2, 3}
    /\ all_animal_ids = listing[2] \o listing[3]

\* C19: get_all_animal_ids comes to an end, by returning or by raising,
\* whatever pages fail.
C19_PagerTerminates == <>(pager_pc \in {"returned", "raised"})

\* C20: a first listing response that cannot be parsed ends the run: no
\* further page is requested and the run goes on neither to loading nor to
\* a normal return.
C20_MalformedFirstResponseIsFatal ==
    (run_pc # "direct" /\ page_log # <<>> /\ page_log[1].outcome = "malformed") =>
        /\ Len(page_log) = 1
        /\ beyond = 0
        /\ run_pc = "extract"

\* C21: the pages are requested in the order 1, 2, 3, ..., each once, and no
\* page after the last page the listing declares (total_pages) is requested.
\* (Page 1 has to be requested to learn total_pages, so a listing that
\* declares no page at all is left aside.)
C21_PagesInOrderUpToTotalPages ==
    /\ \A i \in 1..Len(page_log) : page_log[i].page = i
    /\ LastPage >= 1 => beyond = 0

\* process_animals has not been called: nothing enqueued, no worker started,
\* no chunk taken, nothing posted.
SchedulerNotInvoked ==
    /\ main_pc = "idle"
    /\ work_queue = <<>>
    /\ started = 0
    /\ \A w \in WorkerIds : wpc[w] = "unstarted"
    /\ got = <<>>
    /\ posts = <<>>

\* C22: when get_all_animal_ids returns an empty list, run returns without
\* doing anything: process_animals is not called, nothing is fetched or
\* posted, nothing is raised.
C22_EmptyListIsNoOp ==
    (run_pc # "direct" /\ pager_pc = "returned" /\ all_animal_ids = <<>>) =>
        /\ run_pc \in {"extract", "returned"}
        /\ SchedulerNotInvoked
        /\ exc = NoExceptions

\* A run whose extraction requested pages and came back empty has returned.
C22_Witness ==
    /\ run_pc = "returned"
    /\ pager_pc = "returned"
    /\ all_animal_ids = <<>>
    /\ page_log # <<>>

\* C23: an exception of get_all_animal_ids or of process_animals leaves run
\* as the same exception; run never returns normally after one, and after
\* an exception of the extraction process_animals is not called.
C23_ExceptionsPropagateUnchanged ==
    run_pc # "direct" =>
        /\ pager_pc = "raised" =>
              /\ run_pc \in {"extract", "raised"}
              /\ SchedulerNotInvoked
              /\ run_pc = "raised" => exc.run = exc.pager /\ exc.run # ""
        /\ main_pc = "raised" =>
              /\ run_pc \in {"load", "raised"}
              /\ run_pc = "raised" => exc.run = exc.scheduler /\ exc.run # ""
        /\ run_pc = "raised" => pager_pc = "raised" \/ main_pc = "raised"
        /\ run_pc = "returned" => exc = NoExceptions

\* A run whose extraction gathered identifiers has raised the ValueError of
\* process_animals.
C23_Witness ==
    /\ run_pc = "raised"
    /\ main_pc = "raised"
    /\ all_animal_ids # <<>>
    /\ exc.run = "ValueError"

\* ------------------------------------------------- workers and identifiers
\* The chunks worker w has taken from the queue.
ChunksOf(w) == {got[i].batch_num : i \in {j \in 1..Len(got) : got[j].worker = w}}

\* The positions of animal_ids that lie in chunk n.
PositionsOf(n) == ((n - 1) * batch_size + 1)..Min(n * batch_size, Len(animal_ids))

\* The positions of the list, and the identifiers, worker w has touched: those
\* of the chunks it took (it fetches, transforms and posts nothing else).
TouchedPositions(w) == UNION {PositionsOf(n) : n \in ChunksOf(w)}

TouchedIds(w) ==
    {animal_ids[k] : k \in TouchedPositions(w)}
        \cup UNION {{posts[i].batch_ids[k] : k \in 1..Len(posts[i].batch_ids)} :
                      i \in {j \in 1..Len(posts) : posts[j].worker = w}}

NoDuplicates(ids) == Cardinality({ids[i] : i \in 1..Len(ids)}) = Len(ids)

\* C24 as claimed: whatever the list, no identifier is touched by two workers.
C24_NoIdentifierTouchedTwice ==
    \A w1, w2 \in WorkerIds : w1 # w2 => TouchedIds(w1) \cap TouchedIds(w2) = {}

\* C24: no position of the list handed to the scheduler is touched by two
\* workers, a worker posts only identifiers of chunks it took, and so no
\* identifier is touched by two workers when the list holds each once.
C24_NoPositionTouchedTwice ==
    /\ \A w1, w2 \in WorkerIds :
          w1 # w2 => TouchedPositions(w1) \cap TouchedPositions(w2) = {}
    /\ \A i \in 1..Len(posts) : posts[i].batch_num \in ChunksOf(posts[i].worker)
    /\ NoDuplicates(animal_ids) => C24_NoIdentifierTouchedTwice

\* Two workers have each taken and posted a chunk of a list without repeats.
C24_Witness ==
    /\ NoDuplicates(animal_ids)
    /\ \E i, j \in 1..Len(posts) :
          /\ posts[i].worker # posts[j].worker
          /\ posts[i].ok /\ posts[j].ok
    /\ \A w \in Workers : TouchedIds(w) # {}

\* The records of a batch that transform without raising, in input order.
GoodRecords(details) ==
    SelectSeq(details, LAMBDA d : d.born_at # BornAtMs("out_of_range"))

BadRecords(details) ==
    SelectSeq(details, LAMBDA d : d.born_at = BornAtMs("out_of_range"))

\* C25: transform_animals_batch never fails because of a single record: it
\* returns, a raising record is left out and its id collected, every other
\* record is returned in input order, and an empty input gives an empty output.
C25_BatchSkipsOnlyRaisingRecords ==
    [][t_pc = "batch" =>
          /\ t_pc' = "returned"
          /\ Len(t_output') = Len(GoodRecords(t_input))
          /\ \A k \in 1..Len(t_output') :
                /\ t_output'[k].id = GoodRecords(t_input)[k].id
                /\ t_output'[k].friends = GoodRecords(t_input)[k].friends.value
                /\ t_output'[k].stage = "transformed"
          /\ t_errors' = [k \in 1..Len(BadRecords(t_input)) |-> BadRecords(t_input)[k].id]
          /\ (t_input = <<>> => t_output' = <<>>)]_vars

\* A batch has returned with a raising record left out between two kept ones.
C25_Witness ==
    /\ t_pc = "returned"
    /\ Len(t_input) = 3
    /\ RaisingPositions(t_input) = {2}
    /\ Len(t_output) = 2
    /\ t_errors = <<t_input[2].id>>

\* A scanner for the friends text, written from the claim: characters are
\* gathered up to each comma, the gathered piece is trimmed and kept unless empty.
RECURSIVE TrimLeft(_)
TrimLeft(str) ==
    IF str # <<>> /\ Head(str) = " " THEN TrimLeft(Tail(str)) ELSE str

RECURSIVE TrimRight(_)
TrimRight(str) ==
    IF str # <<>> /\ str[Len(str)] = " "
    THEN TrimRight(SubSeq(str, 1, Len(str) - 1)) ELSE str

Flush(acc, cur) ==
    IF TrimRight(TrimLeft(cur)) = <<>> THEN acc ELSE Append(acc, TrimRight(TrimLeft(cur)))

RECURSIVE Pieces(_, _, _)
Pieces(str, cur, acc) ==
    IF str = <<>> THEN Flush(acc, cur)
    ELSE IF Head(str) = "," THEN Pieces(Tail(str), <<>>, Flush(acc, cur))
    ELSE Pieces(Tail(str), Append(cur, Head(str)), acc)

\* The call TransformedAnimal(friends=<a string>) has returned.
FriendsStringTransformed ==
    /\ t_pc = "constructed"
    /\ t_input.friends.type = "str"

TrailingComma ==
    /\ t_input.friends.type = "str"
    /\ Len(t_input.friends.value) >= 2
    /\ t_input.friends.value[Len(t_input.friends.value)] = ","
    /\ t_input.friends.value[Len(t_input.friends.value) - 1] \in {"a", "b"}

\* The call on a raw record has ended.
RawCallEnded == t_pc \in {"constructed", "transformed", "rejected", "raised"}

PostedOutOfOrder(i, j) ==
    /\ i < j
    /\ posts[i].batch_num > posts[j].batch_num

\* The position in got at which chunk n left the queue.
GotAt(n) == CHOOSE i \in 1..Len(got) : got[i].batch_num = n

\* C28: with two or more workers the batch of a later chunk can be posted
\* before the batch of an earlier chunk; it happens only between two workers,
\* after the earlier chunk left the queue first.
C28_LaterChunkPostedFirstByOtherWorker ==
    \A i, j \in 1..Len(posts) :
        PostedOutOfOrder(i, j) =>
            /\ max_workers >= 2
            /\ posts[i].worker # posts[j].worker
            /\ GotAt(posts[j].batch_num) < GotAt(posts[i].batch_num)

\* Two workers: the batch of a later chunk was posted before that of an
\* earlier chunk, both accepted.
C28_Witness ==
    /\ max_workers >= 2
    /\ \E i, j \in 1..Len(posts) :
          /\ PostedOutOfOrder(i, j)
          /\ posts[i].ok /\ posts[j].ok

\* C29: chunks leave the queue in FIFO order whatever the number of
\* workers (the k-th chunk taken is chunk k), and with one worker a chunk is
\* taken only after the one before it was processed, the posts following the
\* chunk order strictly.
C29_ChunksLeaveInFifoOrder ==
    /\ \A i \in 1..Len(got) : got[i].batch_num = i
    /\ max_workers = 1 =>
          /\ \A i, j \in 1..Len(posts) :
                i < j => posts[i].batch_num < posts[j].batch_num
          /\ \A i \in 1..(Len(got) - 1) : processed[got[i].batch_num] # <<>>

\* One worker has taken three chunks and posted two batches.
C29_Witness ==
    /\ max_workers = 1
    /\ Len(got) = 3
    /\ Len(posts) >= 2

\* The stop signals on the queue, and those consumed so far.
StopsOnQueue == Len(SelectSeq(work_queue, LAMBDA item : item = Sentinel))

RECURSIVE SumStops(_)
SumStops(w) == IF w = 0 THEN 0 ELSE stops[w] + SumStops(w - 1)

\* C30: every stop signal is behind every chunk on the queue, all W of them
\* are put there with the chunks, a worker takes a stop signal only from the
\* head of a queue that holds no chunk, each worker takes one, W are taken in
\* total, and when the last worker has exited the queue is empty.
C30_StopSignalsAfterChunks ==
    /\ [](/\ \A i, j \in 1..Len(work_queue) :
               (i < j /\ work_queue[i] = Sentinel) => work_queue[j] = Sentinel
          /\ main_pc \in {"start", "join_workers", "returned"} =>
                StopsOnQueue + SumStops(MaxWorkers) = max_workers
          /\ \A w \in WorkerIds : stops[w] <= 1
          /\ WorkersExited =>
                /\ SumStops(MaxWorkers) = max_workers
                /\ work_queue = <<>>)
    /\ [][\A w \in WorkerIds :
            stops'[w] # stops[w] =>
                /\ ChunksOnQueue = <<>>
                /\ Head(work_queue) = Sentinel
                /\ work_queue' = Tail(work_queue)]_vars

\* Two workers have exited after three chunks were taken; nothing is left.
C30_Witness ==
    /\ max_workers = 2
    /\ WorkersExited
    /\ Len(got) = 3
    /\ SumStops(MaxWorkers) = 2
    /\ work_queue = <<>>

\* Worker w is between taking a chunk and its task_done.
Busy(w) == wpc[w] \in {"fetch", "transform", "post", "progress", "task_done"}

\* The chunks taken from the queue whose task_done has not happened yet,
\* counted from the queue's bookkeeping: every put raised unfinished_tasks,
\* every task_done lowered it, and stop signals are never marked done.
ChunksInFlight ==
    IF main_pc \in {"start", "join_workers", "returned"}
    THEN Len(got) - (total_batches + max_workers - unfinished_tasks)
    ELSE 0

\* The positions in got of the chunks worker w took.
TakenBy(w) == {i \in 1..Len(got) : got[i].worker = w}

\* C31: at most W chunks are being processed at any time, a worker holds at
\* most one chunk at a time (it takes the next one only after the one before
\* is processed, and two workers never hold the same chunk), and the workers
\* created are 1..started with never more than W of them, all W once the call
\* is past its start loop.
C31_ConcurrencyBoundedByPool ==
    /\ ChunksInFlight <= max_workers
    /\ ChunksInFlight = Cardinality({w \in WorkerIds : Busy(w)})
    /\ \A w \in WorkerIds :
          /\ \A i, j \in TakenBy(w) :
                i < j => \E k \in 1..Len(processed[got[i].batch_num]) :
                            processed[got[i].batch_num][k].worker = w
          /\ Busy(w) =>
                /\ TakenBy(w) # {}
                /\ \A i \in TakenBy(w) : got[i].batch_num <= batch_info[w].batch_num
    /\ \A w1, w2 \in WorkerIds :
          (w1 # w2 /\ Busy(w1) /\ Busy(w2)) =>
              batch_info[w1].batch_num # batch_info[w2].batch_num
    /\ started <= max_workers
    /\ {w \in WorkerIds : wpc[w] # "unstarted"} = 1..started
    /\ main_pc \in {"join_workers", "returned"} => started = max_workers

\* Two workers, all that were to be created, each hold a chunk while a third
\* chunk waits on the queue.
C31_Witness ==
    /\ max_workers = 2
    /\ started = 2
    /\ ChunksInFlight = 2
    /\ \A w \in Workers : Busy(w)
    /\ ChunksOnQueue # <<>>

\* The chunks whose processing came through without raising: the batch was
\* posted, or there was nothing to post.
FinishedWithoutRaising ==
    {n \in 1..MaxChunks :
        \E k \in 1..Len(processed[n]) : processed[n][k].outcome \in {"posted", "empty"}}

\* The workers that are through with a chunk and about to increment.
AboutToCount == {w \in WorkerIds : wpc[w] = "progress"}

\* C32: no increment of the completed-chunk counter is lost under concurrent
\* workers: the counter is the number of chunks that came through without
\* raising, less those whose worker stands right before its increment; it
\* is that number exactly once the workers have exited, and it never exceeds
\* the total number of chunks.
C32_NoIncrementLost ==
    /\ completed_batches = Cardinality(FinishedWithoutRaising) - Cardinality(AboutToCount)
    /\ completed_batches = SumCounted(MaxChunks)
    /\ completed_batches <= total_batches
    /\ WorkersExited => completed_batches = Cardinality(FinishedWithoutRaising)

\* One chunk is counted, and two workers stand before their increments at the
\* same time.
C32_Witness ==
    /\ max_workers = 2
    /\ completed_batches = 1
    /\ \A w \in Workers : wpc[w] = "progress"

====
